---- MODULE Spec2Model ----
(***************************************************************************)
(* Model of chronicler's DOCX property store                               *)
(* (src/src/chronicler/docx_reader.py, class DocxPropertiesReader).        *)
(*                                                                         *)
(* A DOCX file is a ZIP archive: a sequence of named entries.  The parts   *)
(* the store looks into are modelled by their XML content:                 *)
(*   docProps/custom.xml   a sequence of property elements                 *)
(*   word/settings.xml     a sequence of docVar elements                   *)
(*   [Content_Types].xml   whether the custom-properties Override is there *)
(* Every other entry is an opaque blob.  A Python dict is an ordered       *)
(* dictionary: a sequence of [k, v] records with distinct keys.            *)
(***************************************************************************)
EXTENDS Naturals, Sequences, FiniteSets, TLC

VARIABLES
    files,      \* path -> content of the file at that path
    temps,      \* temporary-file slot -> content (the files of the temp directory)
    crossFs,    \* TRUE when the temp directory and the destination are on different filesystems
    lib,        \* what the document library's custom-property accessor reports for the document
    pc,         \* position of the running add_custom_properties call, "idle" between calls
    call,       \* local variables of the running add_custom_properties call
    lastWrite,  \* outcome of the last finished add_custom_properties call
    lastRead,   \* outcome of the last read_properties call since the last write
    nCalls,     \* number of add_custom_properties calls started
    handle,     \* outcome of DocxPropertiesReader(path): the reader and its file_path
    held,       \* the mapping a caller keeps from an earlier get_variable_values call
    cli,        \* the run of a chronicler command: its position, local variables and exit code
    redmine     \* the running get_all_project_issues call and the server it talks to

vars ==
    <<files, temps, crossFs, lib, pc, call, lastWrite, lastRead, nCalls, handle, held,
      cli, redmine>>

(***************************************************************************)
(* Bounds of the model.                                                    *)
(***************************************************************************)
MaxCalls == 2        \* add_custom_properties calls in one behaviour
MaxNew == 1          \* entries of the mapping passed to add_custom_properties
MaxSrcProps == 1     \* property elements of the initial docProps/custom.xml (Spec)
MaxReadProps == 2    \* property elements of the docProps/custom.xml read (SpecRead)
MaxDocVars == 2      \* docVar elements of the word/settings.xml read (SpecRead)
MaxNative == 2       \* entries of the library's custom-property listing (SpecRead)
MaxIssues == 250     \* issues of the Redmine project (SpecRedmine)

(***************************************************************************)
(* Strings.  TLC strings are atomic, so the strings whose characters       *)
(* matter to the XML layer are named.                                      *)
(***************************************************************************)
CRValue == "a\rb"    \* a value holding a carriage return
LFValue == "a\nb"    \* the same value as an XML parser reports it
FFValue == "a\fb"    \* a value holding a form feed: not a character of XML 1.0

Names == {"K", "A"}
NewValues == {"", "X1", CRValue, FFValue}

SrcPath == "doc.docx"
OutPath == "out.docx"
Paths == {SrcPath, OutPath}
DirPath == "outdir"

CustomXml == "docProps/custom.xml"
SettingsXml == "word/settings.xml"
ContentTypesXml == "[Content_Types].xml"
DocumentXml == "word/document.xml"

Absent == [kind |-> "absent"]
Partial == [kind |-> "partial"]     \* a file whose writing stopped part-way
EmptyFile == [kind |-> "empty"]     \* a file of zero bytes
NotZip == [kind |-> "text"]         \* a file of other bytes ("dummy content")
Dir == [kind |-> "dir", children |-> <<>>]     \* a directory, and the files in it
NoRead == [status |-> "none"]

SeqsUpTo(S, n) == UNION {[1..k -> S] : k \in 0..n}

(***************************************************************************)
(* Python dict: insertion-ordered, distinct keys.                          *)
(***************************************************************************)
Keys(od) == {od[i].k : i \in DOMAIN od}

Get(od, key) == od[CHOOSE i \in DOMAIN od : od[i].k = key].v

\* d[key] = value
Put(od, key, value) ==
    IF key \in Keys(od)
    THEN [i \in DOMAIN od |-> IF od[i].k = key THEN [k |-> key, v |-> value] ELSE od[i]]
    ELSE Append(od, [k |-> key, v |-> value])

RECURSIVE Update(_, _)
\* d.update(other), and {**d, **other}
Update(od, other) ==
    IF other = <<>> THEN od
    ELSE Update(Put(od, other[1].k, other[1].v), Tail(other))

DistinctKeys(od) == \A i, j \in DOMAIN od : od[i].k = od[j].k => i = j

(***************************************************************************)
(* Python values of a read result: <<type, str(value)>>.                   *)
(***************************************************************************)
PyStr(s) == <<"str", s>>
PyInt(s) == <<"int", s>>
PyFloat(s) == <<"float", s>>
PyBool(b) == <<"bool", IF b THEN "True" ELSE "False">>
PyNone == <<"NoneType", "None">>
PyDate(s) == <<"datetime", s>>

Str(v) == v[2]

AsPyStr(od) == [i \in DOMAIN od |-> [k |-> od[i].k, v |-> PyStr(od[i].v)]]

(***************************************************************************)
(* XML, as xml.etree.ElementTree writes and parses it.                     *)
(***************************************************************************)
\* ET.tostring writes every character as it is (only &, <, > are escaped):
\* a character that is no XML character makes the bytes malformed.
XmlLegal(s) == s # FFValue

\* The parser reports a carriage return in character data as a line feed.
ParsedText(s) == IF s = CRValue THEN LFValue ELSE s

\* Python truthiness of an attribute or of an element's text: None (absent
\* attribute, empty element) and "" are both false.
Truthy(s) == s # ""

\* zipfile.ZipFile.read(name): the data of the last entry of that name.
HasEntry(content, name) ==
    \E i \in DOMAIN content.entries : content.entries[i].name = name

ZipRead(content, name) ==
    LET last == CHOOSE i \in DOMAIN content.entries :
                    /\ content.entries[i].name = name
                    /\ \A j \in DOMAIN content.entries :
                           content.entries[j].name = name => j <= i
    IN content.entries[last].data

IsZip(content) == content.kind = "zip"

RECURSIVE CollectDocVars(_, _)
CollectDocVars(elems, acc) ==
    IF elems = <<>> THEN acc
    ELSE CollectDocVars(Tail(elems),
            IF Truthy(elems[1].name) /\ Truthy(elems[1].val)
            THEN Put(acc, elems[1].name, elems[1].val)
            ELSE acc)

DocVarsIgnoringParseError(content) ==
    IF ~IsZip(content) THEN <<>>
    ELSE IF ~HasEntry(content, SettingsXml) THEN <<>>
    ELSE CollectDocVars(ZipRead(content, SettingsXml).vars, <<>>)

\* _read_document_variables
ReadDocumentVariables(content) ==
    IF ~IsZip(content) THEN <<>>                            \* except Exception
    ELSE IF ~HasEntry(content, SettingsXml) THEN <<>>       \* except KeyError
    ELSE LET part == ZipRead(content, SettingsXml) IN
         IF ~part.ok THEN <<>>                              \* except ET.ParseError
         ELSE CollectDocVars(part.vars, <<>>)

RECURSIVE CollectProps(_, _)
CollectProps(elems, acc) ==
    IF elems = <<>> THEN acc
    ELSE CollectProps(Tail(elems),
            IF Truthy(elems[1].name) /\ Truthy(elems[1].text)
            THEN Put(acc, elems[1].name, ParsedText(elems[1].text))
            ELSE acc)

\* _read_custom_properties_from_zip
ReadCustomPropertiesFromZip(content) ==
    IF ~IsZip(content) THEN <<>>                            \* except Exception
    ELSE IF ~HasEntry(content, CustomXml) THEN <<>>         \* except KeyError
    ELSE LET part == ZipRead(content, CustomXml) IN
         IF ~part.ok THEN <<>>                              \* except ET.ParseError
         ELSE CollectProps(part.props, <<>>)

(***************************************************************************)
(* The native custom-property listing: a sequence of entries               *)
(* [name, value, type] (type "" stands for an entry without a type), or    *)
(* no accessor at all when the document part has no custom_properties      *)
(* attribute.                                                              *)
(***************************************************************************)
NoAccessor == [accessor |-> FALSE, entries |-> <<>>]
Listing(entries) == [accessor |-> TRUE, entries |-> entries]

IntTexts == {"42"}          \* texts int() accepts
FloatTexts == {"3.5"}       \* texts float() accepts and that hold a "."
DottedTexts == {"3.5"}      \* texts holding a "."

\* int(value)
PyIntOf(v) ==
    IF v[1] = "int" THEN [ok |-> TRUE, v |-> v]
    ELSE IF v[1] = "bool" THEN [ok |-> TRUE, v |-> PyInt(IF v[2] = "True" THEN "1" ELSE "0")]
    ELSE IF v[1] = "str" /\ v[2] \in IntTexts THEN [ok |-> TRUE, v |-> PyInt(v[2])]
    ELSE IF v[1] = "str" THEN [ok |-> FALSE, exc |-> "ValueError"]
    ELSE [ok |-> FALSE, exc |-> "TypeError"]

\* float(value)
PyFloatOf(v) ==
    IF v[1] = "float" THEN [ok |-> TRUE, v |-> v]
    ELSE IF v[1] = "str" /\ v[2] \in FloatTexts THEN [ok |-> TRUE, v |-> PyFloat(v[2])]
    ELSE IF v[1] = "str" THEN [ok |-> FALSE, exc |-> "ValueError"]
    ELSE [ok |-> FALSE, exc |-> "TypeError"]

\* bool(value)
PyBoolOf(v) == PyBool(~(v = PyNone \/ v = PyStr("") \/ v = PyBool(FALSE) \/ v = PyInt("0")))

\* The conversion of one entry of the listing according to its type.
ConvertNative(e) ==
    IF e.type = "date" THEN [ok |-> TRUE, v |-> e.value]
    ELSE IF e.type = "number"
         THEN IF Str(e.value) \in DottedTexts THEN PyFloatOf(e.value) ELSE PyIntOf(e.value)
    ELSE IF e.type = "bool" THEN [ok |-> TRUE, v |-> PyBoolOf(e.value)]
    ELSE IF e.type = "" /\ e.value = PyNone THEN [ok |-> TRUE, v |-> PyNone]
    ELSE [ok |-> TRUE, v |-> PyStr(Str(e.value))]

RECURSIVE CollectNative(_, _)
\* The loop over the listing; a conversion that raises ends it.
CollectNative(entries, acc) ==
    IF entries = <<>> THEN [exc |-> "", props |-> acc]
    ELSE LET c == ConvertNative(entries[1]) IN
         IF c.ok THEN CollectNative(Tail(entries), Put(acc, entries[1].name, c.v))
         ELSE [exc |-> c.exc, props |-> acc]

ReadNativeUncaught(listing) ==
    IF ~listing.accessor THEN [exc |-> "AttributeError", props |-> <<>>]
    ELSE CollectNative(listing.entries, <<>>)

\* The first block of _read_custom_properties: the native path.
ReadNative(listing) ==
    IF ~listing.accessor THEN [exc |-> "", props |-> <<>>]    \* except AttributeError
    ELSE CollectNative(listing.entries, <<>>)

\* The listing is the library's view of docProps/custom.xml: a package
\* without that part has no custom property to list.
LibConsistent(content, listing) ==
    (~IsZip(content) \/ ~HasEntry(content, CustomXml)) => listing.entries = <<>>

MergeWrongOrder(native, docVars, zipProps) ==
    Update(Update(native, zipProps), docVars)

\* custom_props.update(doc_vars); custom_props.update(zip_custom_props)
Merge(native, docVars, zipProps) ==
    Update(Update(native, docVars), zipProps)

\* _read_custom_properties
ReadCustomProperties(content, listing) ==
    LET n == ReadNative(listing)
        s == AsPyStr(ReadDocumentVariables(content))
        c == AsPyStr(ReadCustomPropertiesFromZip(content))
    IN IF n.exc # ""
       THEN [status |-> "raised", exc |-> n.exc]
       ELSE [status |-> "ok", props |-> Merge(n.props, s, c),
             L |-> n.props, S |-> s, C |-> c]

\* Document(self.file_path) opens a ZIP archive that holds the package's
\* [Content_Types].xml.
DocumentOpens(content) == IsZip(content) /\ HasEntry(content, ContentTypesXml)

\* What Document(self.file_path) raises for a file it cannot open.  The
\* library raises PackageNotFoundError for a path string that names no ZIP
\* archive; self.file_path is a Path object, which the library hands to
\* zipfile as it is, and zipfile raises BadZipFile for a file that is no
\* archive.  An archive without [Content_Types].xml makes the library raise
\* KeyError.
OpenErrors(content) ==
    IF ~IsZip(content) THEN {"PackageNotFoundError", "BadZipFile"} ELSE {"KeyError"}

\* read_properties: `except PackageNotFoundError` raises a
\* PackageNotFoundError again; no other exception is caught.
ReadProperties(content, listing, openError) ==
    IF ~DocumentOpens(content)
    THEN [status |-> "raised",
          exc |-> IF openError = "PackageNotFoundError"
                  THEN "PackageNotFoundError" ELSE openError]
    ELSE ReadCustomProperties(content, listing)

\* get_variable_names: list(props.custom_properties.keys())
GetVariableNames(r) ==
    IF r.status # "ok" THEN r
    ELSE [status |-> "ok", value |-> [i \in DOMAIN r.props |-> r.props[i].k]]

\* get_variable_values: props.custom_properties.copy()
GetVariableValues(r) ==
    IF r.status # "ok" THEN r ELSE [status |-> "ok", value |-> r.props]

\* get_variable: props.custom_properties.get(name)
GetVariable(r, name) ==
    IF r.status # "ok" THEN r
    ELSE [status |-> "ok",
          value |-> IF name \in Keys(r.props) THEN Get(r.props, name) ELSE PyNone]

(***************************************************************************)
(* Archives.                                                               *)
(***************************************************************************)
NoPart == [part |-> "none"]
Entry(name, data) == [name |-> name, data |-> data]
Blob(id) == [part |-> "bytes", id |-> id]
ContentTypes(ok, override) == [part |-> "ct", ok |-> ok, override |-> override]
Settings(ok, docVars) == [part |-> "settings", ok |-> ok, vars |-> docVars]
Custom(ok, props) == [part |-> "custom", ok |-> ok, props |-> props]
DocVar(name, val) == [name |-> name, val |-> val]
Prop(name, pid, vt, text) == [name |-> name, pid |-> pid, vt |-> vt, text |-> text]

Optional(name, data) == IF data = NoPart THEN <<>> ELSE <<Entry(name, data)>>

Archive(ct, settings, custom) ==
    [kind |-> "zip",
     entries |-> <<Entry(ContentTypesXml, ct), Entry(DocumentXml, Blob("document"))>>
                 \o Optional(SettingsXml, settings) \o Optional(CustomXml, custom)]

\* The property elements of a part, numbered as Word numbers them.
Numbered(elems) ==
    [i \in DOMAIN elems |-> Prop(elems[i].name, i + 1, elems[i].vt, elems[i].text)]

(***************************************************************************)
(* add_custom_properties and its helpers.                                  *)
(***************************************************************************)
FirstPid == 2

CreateCustomPropertiesXmlNoIncrement(properties) ==
    Custom(\A i \in DOMAIN properties :
               XmlLegal(properties[i].k) /\ XmlLegal(properties[i].v),
           [i \in DOMAIN properties |->
               Prop(properties[i].k, FirstPid, "lpwstr", properties[i].v)])

\* _create_custom_properties_xml: one string-typed property per entry, in
\* dict order; the bytes are well-formed when every character written is an
\* XML character.
CreateCustomPropertiesXml(properties) ==
    Custom(\A i \in DOMAIN properties :
               XmlLegal(properties[i].k) /\ XmlLegal(properties[i].v),
           [i \in DOMAIN properties |->
               Prop(properties[i].k, FirstPid + (i - 1), "lpwstr", properties[i].v)])

\* The loop that copies every entry but docProps/custom.xml into the new
\* archive.  read(item.filename) returns the data of the last entry of that
\* name.
RewriteWithoutCustomXml(content) ==
    IF ~IsZip(content)
    THEN [kind |-> "zip", entries |-> <<>>]     \* mode 'a' on a non-archive: no entries
    ELSE [kind |-> "zip",
          entries |-> LET keep == SelectSeq(content.entries,
                                            LAMBDA e : e.name # CustomXml)
                      IN [i \in DOMAIN keep |->
                             Entry(keep[i].name, ZipRead(content, keep[i].name))]]

\* docx_zip.writestr('docProps/custom.xml', custom_xml)
AppendEntry(content, name, data) ==
    [kind |-> "zip", entries |-> Append(content.entries, Entry(name, data))]

\* _update_content_types creates a temporary file exactly when the part is
\* there, parses, and lacks the Override; it never changes the archive.
NeedsOverride(content) ==
    /\ IsZip(content)
    /\ HasEntry(content, ContentTypesXml)
    /\ ZipRead(content, ContentTypesXml).ok
    /\ ~ZipRead(content, ContentTypesXml).override

ValidateNothing(properties) == TRUE

\* `if not properties: raise ValueError`
Validate(properties) == properties # <<>>

\* The exception types that are an IOError (IOError is OSError).
IOErrorTypes == {"IOError", "OSError"}

WrapNothing(kind) == kind

\* `raise IOError(...)` in both handlers: whatever was caught, the caller gets
\* an IOError.
Wrap(kind) == "IOError"

NoWrite ==
    [status |-> "none", exc |-> "", result |-> "", props |-> <<>>, dest |-> "",
     step |-> "", kind |-> "", before |-> <<>>, tempsBefore |-> <<>>,
     created |-> {}, prev |-> <<>>]

NoCall ==
    [props |-> <<>>, output_file |-> "", temp_path |-> 0, temp_zip_path |-> 0,
     custom_xml |-> NoPart, before |-> <<>>, tempsBefore |-> <<>>,
     created |-> {}, prev |-> <<>>, open |-> {}, opened |-> {}]

\* The file handles of a call: `open` holds the handles the call has open,
\* `opened` every handle it has opened so far.
SourceCopy == [file |-> "source", by |-> "shutil.copy2"]
SourceZip == [file |-> "source", by |-> "ZipFile r"]
WorkingArchive == [file |-> "temp_path", by |-> "ZipFile a"]

OpenHandle(c, h) == [c EXCEPT !.open = @ \cup {h}, !.opened = @ \cup {h}]

CloseHandleLeak(c, h) == c

\* The end of a `with` block (or of shutil.copy2, which opens its files in
\* `with` blocks): the handle is closed, on every way out of the block.
CloseHandle(c, h) == [c EXCEPT !.open = @ \ {h}]

WithHandle(c, h) == CloseHandle(OpenHandle(c, h), h)

\* What a call remembers of the call before it: the mapping, when that call
\* replaced the source file in place and returned.
Summary(w) ==
    IF w.status = "returned" /\ w.dest = SrcPath THEN <<w.props>> ELSE <<>>

Finished(status, exc, step, kind) ==
    [status |-> status, exc |-> exc,
     result |-> IF status = "returned" THEN call.output_file ELSE "",
     props |-> call.props, dest |-> call.output_file, step |-> step, kind |-> kind,
     before |-> call.before, tempsBefore |-> call.tempsBefore,
     created |-> call.created, prev |-> call.prev]

\* shutil.move(temp_path, output_file): the file takes the place of the
\* destination; when the destination is a directory, the file is moved into
\* it under its own (temporary) name.
MoveInto(fs, path, content) ==
    IF fs[path].kind = "dir"
    THEN [fs EXCEPT ![path] = [@ EXCEPT !.children = Append(@, content)]]
    ELSE [fs EXCEPT ![path] = content]

\* os.unlink(temp_path) if it exists
Unlink(tmp, slot) == IF slot = 0 THEN tmp ELSE [tmp EXCEPT ![slot] = Absent]

\* The inner handler (clean up temp_path, raise IOError) followed by the
\* outer one (raise IOError).
Raise(step, kind, tmp, created) ==
    /\ temps' = Unlink(tmp, call.temp_path)
    /\ lastWrite' = [Finished("raised", Wrap(kind), step, kind) EXCEPT !.created = created]
    /\ pc' = "idle"
    /\ call' = NoCall

\* The process is interrupted: no handler runs.
Kill(step, tmp, created) ==
    /\ temps' = tmp
    /\ lastWrite' = [Finished("killed", "", step, "") EXCEPT !.created = created]
    /\ pc' = "killed"
    /\ call' = NoCall

Goto(next) ==
    /\ pc' = next
    /\ lastWrite' = lastWrite

\* `except KeyError: pass` (line 313): a KeyError raised while the old
\* custom.xml is being dropped is taken for "there was none", and the call
\* goes on to append the new part to whatever the working copy holds.
Swallowed(kind) == kind = "KeyError"

\* What lines 301-311 can raise: tempfile and shutil raise OSError,
\* ZipFile.read raises BadZipFile on damaged data, ZipFile.writestr raises
\* OSError.  ZipFile.read is only given names of the archive's own infolist,
\* so it has no KeyError to raise.
RewriteFailures == {"OSError", "BadZipFile"}

\* A failure inside the try block of lines 299-314.
RaiseInRewrite(step, kind, tmp, created) ==
    IF Swallowed(kind)
    THEN /\ temps' = tmp
         /\ call' = CloseHandle(call, WorkingArchive)
         /\ Goto("append")
    ELSE Raise(step, kind, tmp, created)

(***************************************************************************)
(* Inputs.                                                                 *)
(***************************************************************************)
\* The mappings a caller passes: dicts of at most MaxNew entries (the empty
\* dict among them).
NewProps ==
    {od \in SeqsUpTo([k : Names, v : NewValues], MaxNew) : DistinctKeys(od)}

\* output_path: None, or a path other than the source.
OutputPaths == {"", OutPath}

UpperPath == "REPORT.DOCX"
TxtPath == "report.txt"

\* Path.suffix, for the paths of the model.
Suffix(path) ==
    IF path \in {SrcPath, OutPath} THEN ".docx"
    ELSE IF path = UpperPath THEN ".DOCX"
    ELSE IF path = TxtPath THEN ".txt"
    ELSE ""

LowerNothing(s) == s

\* str.lower, for the suffixes of the model.
Lower(s) == IF s = ".DOCX" THEN ".docx" ELSE s

\* Path.exists
Exists(fs, path) == fs[path] # Absent

NoHandle == [status |-> "none"]
Handle(path) == [status |-> "ok", file_path |-> path]
NoHeld == [status |-> "none"]

\* DocxPropertiesReader(path): the outcome, with the path that was given.
NewReader(path, fs) ==
    IF ~Exists(fs, path)
    THEN [status |-> "raised", exc |-> "FileNotFoundError", file_path |-> path]
    ELSE IF Lower(Suffix(path)) # ".docx"
    THEN [status |-> "raised", exc |-> "ValueError", file_path |-> path]
    ELSE Handle(path)

(***************************************************************************)
(* add_custom_properties, step by step.  A step either succeeds, raises    *)
(* (the handlers of lines 328-335 then run as part of the same step), or   *)
(* the process is interrupted in it.                                       *)
(***************************************************************************)
\* Lines 266-269, and the call's entry into the try block.
AddCustomProperties(properties, output_path) ==
    /\ pc = "idle"
    /\ nCalls < MaxCalls
    /\ nCalls' = nCalls + 1
    /\ lastRead' = NoRead
    /\ UNCHANGED <<files, temps, crossFs, lib, handle, held, redmine>>
    /\ IF ~Validate(properties)
       THEN /\ lastWrite' = [NoWrite EXCEPT !.status = "raised", !.exc = "ValueError",
                                 !.props = properties, !.before = files,
                                 !.tempsBefore = temps, !.prev = Summary(lastWrite)]
            /\ UNCHANGED <<pc, call>>
       ELSE /\ call' = [NoCall EXCEPT
                            !.props = properties,
                            !.output_file = IF output_path # "" THEN output_path ELSE SrcPath,
                            !.before = files, !.tempsBefore = temps,
                            !.prev = Summary(lastWrite)]
            /\ lastWrite' = NoWrite
            /\ pc' = "mktemp"

\* A call made by a program that holds a reader.
Call(properties, output_path) ==
    /\ AddCustomProperties(properties, output_path)
    /\ UNCHANGED cli

\* Lines 280-281: tempfile.NamedTemporaryFile(suffix='.docx', delete=False).
\* A failure here is caught by the outer handler alone.
MkTemp ==
    /\ pc = "mktemp"
    /\ UNCHANGED <<files, crossFs, lib, handle, held, lastRead, nCalls, cli, redmine>>
    /\ \/ /\ temps' = Append(temps, EmptyFile)
          /\ call' = [call EXCEPT !.temp_path = Len(temps) + 1,
                                  !.created = {Len(temps) + 1}]
          /\ Goto("copy")
       \/ Raise("mktemp", "OSError", temps, {})
       \/ Kill("mktemp", temps, {})

\* Line 285: shutil.copy2(self.file_path, temp_path).
CopySource ==
    /\ pc = "copy"
    /\ UNCHANGED <<files, crossFs, lib, handle, held, lastRead, nCalls, cli, redmine>>
    /\ \/ /\ temps' = [temps EXCEPT ![call.temp_path] = files[SrcPath]]
          /\ call' = WithHandle(call, SourceCopy)
          /\ Goto("merge")
       \/ Raise("copy", "OSError", [temps EXCEPT ![call.temp_path] = Partial], call.created)
       \/ Kill("copy", [temps EXCEPT ![call.temp_path] = Partial], call.created)

\* Lines 288-294: existing properties from the source archive, the new ones
\* on top, and the XML of the merged set.
MergeProps ==
    /\ pc = "merge"
    /\ UNCHANGED <<files, temps, crossFs, lib, handle, held, lastRead, nCalls, cli, redmine>>
    /\ call' = [WithHandle(call, SourceZip) EXCEPT !.custom_xml =
                    CreateCustomPropertiesXml(
                        Update(ReadCustomPropertiesFromZip(files[SrcPath]), call.props))]
    /\ Goto("mktempzip")

\* Lines 297-302: the working copy is opened for append and the second
\* temporary file is created.
MkTempZip ==
    /\ pc = "mktempzip"
    /\ UNCHANGED <<files, crossFs, lib, handle, held, lastRead, nCalls, cli, redmine>>
    /\ \/ /\ temps' = Append(temps, EmptyFile)
          /\ call' = [OpenHandle(call, WorkingArchive) EXCEPT
                           !.temp_zip_path = Len(temps) + 1,
                           !.created = @ \cup {Len(temps) + 1}]
          /\ Goto("rewrite")
       \/ RaiseInRewrite("mktempzip", "OSError", temps, call.created)
       \/ Kill("mktempzip", temps, call.created)

\* Lines 304-308: every entry but docProps/custom.xml is copied into the
\* second temporary file.  Reading an entry raises BadZipFile on damaged
\* data, writing raises OSError; the handler removes temp_path only.
Rewrite ==
    /\ pc = "rewrite"
    /\ UNCHANGED <<files, crossFs, lib, handle, held, lastRead, nCalls, cli, redmine>>
    /\ \/ /\ temps' = [temps EXCEPT ![call.temp_zip_path] =
                           RewriteWithoutCustomXml(temps[call.temp_path])]
          /\ call' = call
          /\ Goto("movezip")
       \/ \E kind \in RewriteFailures :
              RaiseInRewrite("rewrite", kind,
                             [temps EXCEPT ![call.temp_zip_path] = Partial], call.created)
       \/ Kill("rewrite", [temps EXCEPT ![call.temp_zip_path] = Partial], call.created)

\* Line 311: shutil.move(temp_zip_path, temp_path), a rename inside the
\* temp directory.
MoveTempZip ==
    /\ pc = "movezip"
    /\ UNCHANGED <<files, crossFs, lib, handle, held, lastRead, nCalls, cli, redmine>>
    /\ \/ /\ temps' = [temps EXCEPT ![call.temp_path] = temps[call.temp_zip_path],
                                    ![call.temp_zip_path] = Absent]
          /\ call' = CloseHandle(call, WorkingArchive)
          /\ Goto("append")
       \/ RaiseInRewrite("movezip", "OSError", temps, call.created)
       \/ Kill("movezip", temps, call.created)

\* Lines 317-318: the new docProps/custom.xml is appended to the working copy.
AppendCustomXml ==
    /\ pc = "append"
    /\ UNCHANGED <<files, crossFs, lib, handle, held, lastRead, nCalls, cli, redmine>>
    /\ \/ /\ temps' = [temps EXCEPT ![call.temp_path] =
                           AppendEntry(temps[call.temp_path], CustomXml, call.custom_xml)]
          /\ call' = OpenHandle(call, WorkingArchive)
          /\ Goto("content_types")
       \/ Raise("append", "OSError", [temps EXCEPT ![call.temp_path] = Partial],
                call.created)
       \/ Kill("append", [temps EXCEPT ![call.temp_path] = Partial], call.created)

\* Line 321 and _update_content_types (lines 371-412), then the archive is
\* closed.  The temporary file written for the new [Content_Types].xml is
\* never put into the archive and never removed; a failure to create it is
\* swallowed.
UpdateContentTypes ==
    /\ pc = "content_types"
    /\ UNCHANGED <<files, crossFs, lib, handle, held, lastRead, nCalls, cli, redmine>>
    /\ \E written \in IF NeedsOverride(temps[call.temp_path]) THEN BOOLEAN ELSE {FALSE} :
         LET tmp == IF written THEN Append(temps, [kind |-> "xml"]) ELSE temps
             made == IF written THEN call.created \cup {Len(temps) + 1} ELSE call.created
         IN \/ /\ temps' = tmp
               /\ call' = [CloseHandle(call, WorkingArchive) EXCEPT !.created = made]
               /\ Goto("move")
            \/ Raise("close", "OSError", tmp, made)
            \/ Kill("close", tmp, made)

\* Line 324: shutil.move(temp_path, output_file), then `return output_file`.
\* On one filesystem the move is a rename; across filesystems it is a copy
\* into the destination followed by the removal of temp_path, and the copy
\* can stop part-way.
FinalMove ==
    /\ pc = "move"
    /\ UNCHANGED <<crossFs, lib, handle, held, lastRead, nCalls, cli, redmine>>
    /\ \/ /\ files' = MoveInto(files, call.output_file, temps[call.temp_path])
          /\ temps' = Unlink(temps, call.temp_path)
          /\ lastWrite' = Finished("returned", "", "", "")
          /\ pc' = "idle"
          /\ call' = NoCall
       \/ /\ files' = files
          /\ Raise("move", "OSError", temps, call.created)
       \/ /\ files' = files
          /\ Kill("move", temps, call.created)
       \/ /\ crossFs
          /\ files' = MoveInto(files, call.output_file, Partial)
          /\ Raise("move", "OSError", temps, call.created)
       \/ /\ crossFs
          /\ files' = MoveInto(files, call.output_file, Partial)
          /\ Kill("move", temps, call.created)

ReadCached ==
    /\ pc = "idle"
    /\ handle.status = "ok"
    /\ LET content == files[handle.file_path] IN
       \E openError \in IF DocumentOpens(content) THEN {""} ELSE OpenErrors(content) :
           LET r == ReadProperties(content, lib, openError) IN
           lastRead' = IF r.status = "ok" /\ held.status = "ok"
                       THEN [r EXCEPT !.props = held.value]
                       ELSE r
    /\ UNCHANGED <<files, temps, crossFs, lib, handle, held, pc, call, lastWrite, nCalls, cli, redmine>>

\* read_properties on the handle's path.
Read ==
    /\ pc = "idle"
    /\ handle.status = "ok"
    /\ LET content == files[handle.file_path] IN
       \E openError \in IF DocumentOpens(content) THEN {""} ELSE OpenErrors(content) :
           lastRead' = ReadProperties(content, lib, openError)
    /\ UNCHANGED <<files, temps, crossFs, lib, handle, held, pc, call, lastWrite, nCalls, cli, redmine>>

\* get_variable_values on the handle's path: the caller keeps the mapping it
\* is given; `at` and `fresh` remember the file content of that moment and
\* the mapping as it was returned.
GetValues ==
    /\ pc = "idle"
    /\ handle.status = "ok"
    /\ LET content == files[handle.file_path] IN
       \E openError \in IF DocumentOpens(content) THEN {""} ELSE OpenErrors(content) :
           LET r == GetVariableValues(ReadProperties(content, lib, openError)) IN
           held' = IF r.status = "ok"
                   THEN [status |-> "ok", value |-> r.value, fresh |-> r.value,
                         at |-> content, mutated |-> FALSE]
                   ELSE held
    /\ UNCHANGED <<files, temps, crossFs, lib, handle, pc, call, lastWrite, lastRead, nCalls, cli, redmine>>

\* The caller changes the mapping it was given: values[name] = value.
MutateHeld(name, value) ==
    /\ pc = "idle"
    /\ held.status = "ok"
    /\ ~held.mutated
    /\ held' = [held EXCEPT !.value = Put(@, name, PyStr(value)), !.mutated = TRUE]
    /\ UNCHANGED <<files, temps, crossFs, lib, handle, pc, call, lastWrite, lastRead, nCalls, cli, redmine>>

\* DocxPropertiesReader(path)
Open(path) ==
    /\ pc = "idle"
    /\ handle' = NewReader(path, files)
    /\ lastRead' = NoRead
    /\ UNCHANGED <<files, temps, crossFs, lib, pc, call, lastWrite, nCalls, held, cli, redmine>>

(***************************************************************************)
(* The DOCX commands of the command line (src/src/chronicler/__main__.py). *)
(* A line typed at a prompt is a sequence of characters.                   *)
(***************************************************************************)
\* The list `required_vars` of docx_check and docx_add_vars.
required_vars ==
    <<"ID", "Revision", "Dokumententyp", "Projekt", "Freigeber", "Freigabedatum",
      "Status", "Klassifizierung">>

IsSpace(c) == c \in {" ", "\t"}

RECURSIVE LStrip(_)
LStrip(s) == IF s # <<>> /\ IsSpace(Head(s)) THEN LStrip(Tail(s)) ELSE s

RECURSIVE RStrip(_)
RStrip(s) ==
    IF s # <<>> /\ IsSpace(s[Len(s)]) THEN RStrip(SubSeq(s, 1, Len(s) - 1)) ELSE s

\* str.strip()
Strip(s) == RStrip(LStrip(s))

RECURSIVE Text(_)
\* The string made of the characters of a line.
Text(s) == IF s = <<>> THEN "" ELSE Head(s) \o Text(Tail(s))

\* How a command ends, and the exit code the click group gives the process:
\* a return is 0, click.Abort is 1, a usage error (click.Path(exists=True) on
\* a missing file) is 2.
ExitCodeZero(ending) == 0

ExitCode(ending) ==
    IF ending = "return" THEN 0 ELSE IF ending = "Abort" THEN 1 ELSE 2

NoReport == [found |-> 0, total |-> 0, all_found |-> FALSE, variables |-> <<>>]

NoCli ==
    [cmd |-> "", stage |-> "shell", file_path |-> "", output |-> "",
     interactive |-> TRUE, force |-> FALSE, review_all |-> FALSE, format |-> "",
     before |-> <<>>, existing_vars |-> <<>>, missing_vars |-> <<>>, prompted |-> <<>>,
     line |-> <<>>, answered |-> {}, new_properties |-> <<>>, passed |-> <<>>,
     confirmed |-> FALSE,
     errors |-> {}, exit |-> 0, report |-> NoReport]

\* The command starts: its arguments, and the files as they are.
Started(cmd, file_path) ==
    [NoCli EXCEPT !.cmd = cmd, !.file_path = file_path, !.before = files]

\* The command ends; `errors` is what was signaled in it.
Exited(c, ending, errors) ==
    [c EXCEPT !.stage = "exited", !.exit = ExitCode(ending), !.errors = @ \cup errors,
              !.line = <<>>]

\* `except FileNotFoundError` / `except Exception`: raise click.Abort().
Aborted(c, errors) == Exited(c, "Abort", errors)

\* reader.get_variable_values() (or another accessor) on the command's file.
CliRead(path, openError) == ReadProperties(files[path], lib, openError)

\* What opening the document at the path can raise ("" for nothing).
CliOpenErrors(path) ==
    IF DocumentOpens(files[path]) THEN {""} ELSE OpenErrors(files[path])

\* results[var_name]["exists"] of docx_check, in the order of required_vars.
CheckResults(all_vars) ==
    [i \in DOMAIN required_vars |-> [name |-> required_vars[i],
                                     exists |-> required_vars[i] \in Keys(all_vars)]]

FoundCountOfAll(results) == Len(results)

\* found_count = sum(1 for r in results.values() if r["exists"])
FoundCount(results) == Cardinality({i \in DOMAIN results : results[i].exists})

\* The summary docx_check prints (table) or emits (json).
CheckReport(all_vars) ==
    LET results == CheckResults(all_vars)
        found_count == FoundCount(results)
        total_count == Len(required_vars)
    IN [found |-> found_count, total |-> total_count,
        all_found |-> found_count = total_count, variables |-> results]

\* docx-check FILE [--format table|json]
DocxCheck(file_path, output_format) ==
    /\ cli.stage = "shell"
    /\ pc = "idle"
    /\ LET c == [Started("docx-check", file_path) EXCEPT !.format = output_format]
           reader == NewReader(file_path, files)
       IN IF ~Exists(files, file_path)
          THEN /\ cli' = Exited(c, "UsageError", {"UsageError"})
               /\ UNCHANGED handle
          ELSE /\ handle' = reader
               /\ IF reader.status # "ok"
                  THEN cli' = Aborted(c, {reader.exc})
                  ELSE \E openError \in CliOpenErrors(file_path) :
                         LET r == GetVariableValues(CliRead(file_path, openError)) IN
                         cli' = IF r.status # "ok"
                                THEN Aborted(c, {r.exc})
                                ELSE Exited([c EXCEPT !.existing_vars = r.value,
                                                      !.report = CheckReport(r.value)],
                                            "return", {})
    /\ UNCHANGED <<files, temps, crossFs, lib, pc, call, lastWrite, lastRead, nCalls, held,
                   redmine>>

\* docx-props FILE [--variables-only]: read_properties, then the table or
\* the JSON text (json.dumps with default=str).
DocxProps(file_path, variables_only) ==
    /\ cli.stage = "shell"
    /\ pc = "idle"
    /\ LET c == [Started("docx-props", file_path) EXCEPT
                     !.format = IF variables_only THEN "variables" ELSE "all"]
           reader == NewReader(file_path, files)
       IN IF ~Exists(files, file_path)
          THEN /\ cli' = Exited(c, "UsageError", {"UsageError"})
               /\ UNCHANGED handle
          ELSE /\ handle' = reader
               /\ IF reader.status # "ok"
                  THEN cli' = Aborted(c, {reader.exc})
                  ELSE \E openError \in CliOpenErrors(file_path) :
                         LET r == CliRead(file_path, openError) IN
                         cli' = IF r.status # "ok"
                                THEN Aborted(c, {r.exc})
                                ELSE Exited([c EXCEPT !.existing_vars = r.props],
                                            "return", {})
    /\ UNCHANGED <<files, temps, crossFs, lib, pc, call, lastWrite, lastRead, nCalls, held,
                   redmine>>

\* docx-vars FILE [--names-only]: get_variable_names or get_variable_values.
DocxVars(file_path, names_only) ==
    /\ cli.stage = "shell"
    /\ pc = "idle"
    /\ LET c == [Started("docx-vars", file_path) EXCEPT
                     !.format = IF names_only THEN "names" ELSE "values"]
           reader == NewReader(file_path, files)
       IN IF ~Exists(files, file_path)
          THEN /\ cli' = Exited(c, "UsageError", {"UsageError"})
               /\ UNCHANGED handle
          ELSE /\ handle' = reader
               /\ IF reader.status # "ok"
                  THEN cli' = Aborted(c, {reader.exc})
                  ELSE \E openError \in CliOpenErrors(file_path) :
                         LET r == IF names_only
                                  THEN GetVariableNames(CliRead(file_path, openError))
                                  ELSE GetVariableValues(CliRead(file_path, openError))
                         IN cli' = IF r.status # "ok"
                                   THEN Aborted(c, {r.exc})
                                   ELSE Exited([c EXCEPT !.existing_vars = r.value],
                                               "return", {})
    /\ UNCHANGED <<files, temps, crossFs, lib, pc, call, lastWrite, lastRead, nCalls, held,
                   redmine>>

RECURSIVE Filter(_, _)
\* [var for var in required_vars if var not in existing_vars or force]
Filter(s, keep) ==
    IF s = <<>> THEN <<>>
    ELSE IF Head(s) \in keep THEN <<Head(s)>> \o Filter(Tail(s), keep)
    ELSE Filter(Tail(s), keep)

MissingVarsIgnoringForce(existing_vars, force) ==
    Filter(required_vars,
               {v \in {required_vars[i] : i \in DOMAIN required_vars} :
                    v \notin Keys(existing_vars)})

MissingVars(existing_vars, force) ==
    Filter(required_vars,
               {v \in {required_vars[i] : i \in DOMAIN required_vars} :
                    v \notin Keys(existing_vars) \/ force})

\* docx-add-vars FILE [-o OUT] [--interactive/--batch] [--force]
\* [--review-all], up to the first prompt (lines 230-337).
DocxAddVars(file_path, output, interactive, force, review_all) ==
    /\ cli.stage = "shell"
    /\ pc = "idle"
    /\ LET c == [Started("docx-add-vars", file_path) EXCEPT
                     !.output = output, !.interactive = interactive, !.force = force,
                     !.review_all = review_all]
           reader == NewReader(file_path, files)
       IN IF ~Exists(files, file_path)
          THEN /\ cli' = Exited(c, "UsageError", {"UsageError"})
               /\ UNCHANGED handle
          ELSE /\ handle' = reader
               /\ IF reader.status # "ok"
                  THEN cli' = Aborted(c, {reader.exc})
                  ELSE \E openError \in CliOpenErrors(file_path) :
                         LET r == GetVariableValues(CliRead(file_path, openError))
                             e == [c EXCEPT !.existing_vars = r.value]
                             missing_vars == MissingVars(r.value, force)
                         IN cli' =
                              IF r.status # "ok" THEN Aborted(c, {r.exc})
                              ELSE IF review_all
                              THEN IF interactive
                                   THEN [e EXCEPT !.stage = "prompt",
                                                  !.missing_vars = required_vars]
                                   ELSE Aborted(e, {"review-all needs --interactive"})
                              ELSE IF missing_vars = <<>>
                              THEN Exited(e, "return", {})
                              ELSE IF interactive
                              THEN [e EXCEPT !.stage = "prompt",
                                             !.missing_vars = missing_vars]
                              ELSE Aborted(e, {"batch mode not implemented"})
    /\ UNCHANGED <<files, temps, crossFs, lib, pc, call, lastWrite, lastRead, nCalls, held,
                   redmine>>

\* One turn of the prompt loop (lines 277-304, 329-351): the user types a
\* line for the next variable.  `line` keeps the line of the last turn and
\* `answered` the variables whose line held a character that is no blank.
Prompt(value) ==
    /\ cli.stage = "prompt"
    /\ Len(cli.prompted) < Len(cli.missing_vars)
    /\ LET var_name == cli.missing_vars[Len(cli.prompted) + 1] IN
       cli' = [cli EXCEPT
                  !.prompted = Append(@, var_name),
                  !.line = value,
                  !.answered = IF \E i \in DOMAIN value : ~IsSpace(value[i])
                               THEN @ \cup {var_name} ELSE @,
                  !.new_properties =
                      IF Strip(value) # <<>>
                      THEN Put(@, var_name, Text(Strip(value)))
                      ELSE @]
    /\ UNCHANGED <<files, temps, crossFs, lib, pc, call, lastWrite, lastRead, nCalls,
                   handle, held, redmine>>

\* Lines 357-381: after the loop, nothing to write ends the command; else
\* the changes are shown and the confirmation is asked.
ShowChanges ==
    /\ cli.stage = "prompt"
    /\ Len(cli.prompted) = Len(cli.missing_vars)
    /\ cli' = IF cli.new_properties = <<>>
              THEN Exited(cli, "return", {})
              ELSE [cli EXCEPT !.stage = "confirm", !.line = <<>>]
    /\ UNCHANGED <<files, temps, crossFs, lib, pc, call, lastWrite, lastRead, nCalls,
                   handle, held, redmine>>

ProceedAlways(answer) == TRUE

\* click.confirm("Proceed with these changes?")
Proceed(answer) == answer

\* Lines 383-392: the answer to the confirmation; on yes,
\* reader.add_custom_properties(new_properties, output) is entered.
Confirm(answer) ==
    /\ cli.stage = "confirm"
    /\ IF Proceed(answer)
       THEN /\ AddCustomProperties(cli.new_properties, cli.output)
            /\ cli' = [cli EXCEPT !.stage = "writing", !.confirmed = answer,
                                  !.passed = Append(@, cli.new_properties)]
       ELSE /\ cli' = Exited([cli EXCEPT !.confirmed = answer], "return", {})
            /\ UNCHANGED <<files, temps, crossFs, lib, pc, call, lastWrite, lastRead,
                           nCalls, handle, held, redmine>>

\* Lines 394-422: add_custom_properties has returned or raised; on success
\* the user may have the changes verified, which reads the output file with
\* a new reader.
AfterWrite(verify) ==
    /\ cli.stage = "writing"
    /\ pc = "idle"
    /\ lastWrite.status \in {"returned", "raised"}
    /\ IF lastWrite.status = "raised"
       THEN /\ cli' = Aborted(cli, {lastWrite.exc})
            /\ UNCHANGED handle
       ELSE IF ~verify
       THEN /\ cli' = Exited(cli, "return", {})
            /\ UNCHANGED handle
       ELSE LET updated_reader == NewReader(lastWrite.result, files) IN
            /\ handle' = updated_reader
            /\ IF updated_reader.status # "ok"
               THEN cli' = Aborted(cli, {updated_reader.exc})
               ELSE \E openError \in CliOpenErrors(lastWrite.result) :
                      LET r == GetVariableValues(CliRead(lastWrite.result, openError)) IN
                      cli' = IF r.status # "ok"
                             THEN Aborted(cli, {r.exc})
                             ELSE Exited(cli, "return", {})
    /\ UNCHANGED <<files, temps, crossFs, lib, pc, call, lastWrite, lastRead, nCalls, held,
                   redmine>>

(***************************************************************************)
(* RedmineClient.get_all_project_issues                                    *)
(* (src/src/chronicler/redmine_client.py).  An issue is its id; the server *)
(* lists a project's issues by id, newest first.                           *)
(***************************************************************************)
NoRedmine == [stage |-> "none"]

\* `limit = 100`
limit == 100

\* The issues of a project that has n of them, in the order of "sort": "id:desc".
ServerIssues(n) == [i \in 1..n |-> n + 1 - i]

\* The server's answer to get_project_issues(project_id, limit, offset).
Response(issues, page_limit, offset) ==
    [issues |-> SubSeq(issues, offset + 1,
                       IF offset + page_limit < Len(issues)
                       THEN offset + page_limit ELSE Len(issues)),
     total_count |-> Len(issues)]

NextOffsetSame(offset) == offset

\* offset += limit
NextOffset(offset) == offset + limit

\* A client and the server it talks to, before the call.
Client(n) ==
    [stage |-> "ready", server |-> ServerIssues(n), all_issues |-> <<>>, offset |-> 0,
     requested |-> <<>>, failed |-> FALSE, result |-> <<>>]

\* Lines 149-158: the call starts with an empty list at offset 0.
GetAllProjectIssues ==
    /\ redmine.stage = "ready"
    /\ redmine' = [redmine EXCEPT !.stage = "loop", !.all_issues = <<>>, !.offset = 0]
    /\ UNCHANGED <<files, temps, crossFs, lib, pc, call, lastWrite, lastRead, nCalls,
                   handle, held, cli>>

\* One turn of `while True` (lines 160-180), and the return when the loop is
\* left: the request is answered or raises; an empty page, a collected
\* count that reaches total_count and an exception all break.
FetchPage ==
    /\ redmine.stage = "loop"
    /\ LET asked == [redmine EXCEPT !.requested = Append(@, redmine.offset)]
           response == Response(redmine.server, limit, redmine.offset)
           all_issues == redmine.all_issues \o response.issues
       IN \/ redmine' =
                 IF response.issues = <<>>
                 THEN [asked EXCEPT !.stage = "returned", !.result = redmine.all_issues]
                 ELSE IF Len(all_issues) >= response.total_count
                 THEN [asked EXCEPT !.stage = "returned", !.all_issues = all_issues,
                                    !.offset = NextOffset(@), !.result = all_issues]
                 ELSE [asked EXCEPT !.all_issues = all_issues, !.offset = NextOffset(@)]
          \/ redmine' = [asked EXCEPT !.stage = "returned", !.failed = TRUE,
                                      !.result = redmine.all_issues]
    /\ UNCHANGED <<files, temps, crossFs, lib, pc, call, lastWrite, lastRead, nCalls,
                   handle, held, cli>>

(***************************************************************************)
(* Initial states.                                                         *)
(***************************************************************************)
\* Spec: the documents add_custom_properties is run on.
SrcPropElems ==
    {[name |-> "K", vt |-> "lpwstr", text |-> "old"],
     [name |-> "A", vt |-> "i4", text |-> "1"],
     [name |-> "A", vt |-> "lpwstr", text |-> ""]}

SrcCustomParts ==
    {NoPart, Custom(FALSE, <<>>)}
    \cup {Custom(TRUE, Numbered(s)) : s \in SeqsUpTo(SrcPropElems, MaxSrcProps)}

SrcSettingsParts == {NoPart, Settings(TRUE, <<DocVar("K", "S")>>)}

SrcContentTypes == {ContentTypes(TRUE, FALSE), ContentTypes(TRUE, TRUE)}

Init ==
    /\ \E ct \in SrcContentTypes, st \in SrcSettingsParts, cu \in SrcCustomParts :
           files = [p \in Paths |-> IF p = SrcPath THEN Archive(ct, st, cu) ELSE Absent]
    /\ temps = <<>>
    /\ crossFs \in BOOLEAN
    /\ lib = NoAccessor
    /\ pc = "idle"
    /\ call = NoCall
    /\ lastWrite = NoWrite
    /\ lastRead = NoRead
    /\ nCalls = 0
    /\ handle = Handle(SrcPath)
    /\ held = NoHeld
    /\ cli = NoCli
    /\ redmine = NoRedmine

Next ==
    \/ \E properties \in NewProps, output_path \in OutputPaths :
           Call(properties, output_path)
    \/ MkTemp
    \/ CopySource
    \/ MergeProps
    \/ MkTempZip
    \/ Rewrite
    \/ MoveTempZip
    \/ AppendCustomXml
    \/ UpdateContentTypes
    \/ FinalMove
    \/ Read

Spec == Init /\ [][Next]_vars

\* SpecRead: the documents read_properties is run on.
ReadPropElems ==
    {[name |-> "K", vt |-> "lpwstr", text |-> "old"],
     [name |-> "K", vt |-> "lpwstr", text |-> CRValue],
     [name |-> "A", vt |-> "i4", text |-> "1"],
     [name |-> "A", vt |-> "lpwstr", text |-> ""]}

ReadCustomParts ==
    {NoPart}
    \cup {Custom(ok, Numbered(s)) : ok \in BOOLEAN, s \in SeqsUpTo(ReadPropElems, MaxReadProps)}

ReadDocVarElems == {DocVar("K", "S"), DocVar("A", "T"), DocVar("A", "")}

ReadSettingsParts ==
    {NoPart}
    \cup {Settings(ok, s) : ok \in BOOLEAN, s \in SeqsUpTo(ReadDocVarElems, MaxDocVars)}

NativeEntries ==
    {[name |-> "K", value |-> PyStr("N1"), type |-> "string"],
     [name |-> "N", value |-> PyInt("42"), type |-> "number"],
     [name |-> "N", value |-> PyStr("abc"), type |-> "number"]}

NativeListings ==
    {NoAccessor} \cup {Listing(s) : s \in SeqsUpTo(NativeEntries, MaxNative)}

InitRead ==
    /\ \E st \in ReadSettingsParts, cu \in ReadCustomParts :
           files = [p \in Paths |->
                       IF p = SrcPath THEN Archive(ContentTypes(TRUE, TRUE), st, cu)
                       ELSE Absent]
    /\ temps = <<>>
    /\ crossFs = FALSE
    /\ lib \in {l \in NativeListings : LibConsistent(files[SrcPath], l)}
    /\ pc = "idle"
    /\ call = NoCall
    /\ lastWrite = NoWrite
    /\ lastRead = NoRead
    /\ nCalls = 0
    /\ handle = Handle(SrcPath)
    /\ held = NoHeld
    /\ cli = NoCli
    /\ redmine = NoRedmine

NextRead == Read

SpecRead == InitRead /\ [][NextRead]_vars

\* SpecNative: the listings of typed entries the native path converts.
TypedEntries ==
    {[name |-> "S", value |-> PyInt("42"), type |-> "string"],
     [name |-> "N", value |-> PyStr("42"), type |-> "number"],
     [name |-> "N", value |-> PyStr("3.5"), type |-> "number"],
     [name |-> "N", value |-> PyStr("abc"), type |-> "number"],
     [name |-> "B", value |-> PyInt("0"), type |-> "bool"],
     [name |-> "D", value |-> PyDate("2024-01-31"), type |-> "date"],
     [name |-> "U", value |-> PyInt("42"), type |-> ""],
     [name |-> "U", value |-> PyNone, type |-> ""]}

TypedListings == {Listing(s) : s \in SeqsUpTo(TypedEntries, MaxNative)}

InitNative ==
    /\ \E st \in SrcSettingsParts :
           files = [p \in Paths |->
                       IF p = SrcPath
                       THEN Archive(ContentTypes(TRUE, TRUE), st, Custom(TRUE, <<>>))
                       ELSE Absent]
    /\ temps = <<>>
    /\ crossFs = FALSE
    /\ lib \in TypedListings
    /\ pc = "idle"
    /\ call = NoCall
    /\ lastWrite = NoWrite
    /\ lastRead = NoRead
    /\ nCalls = 0
    /\ handle = Handle(SrcPath)
    /\ held = NoHeld
    /\ cli = NoCli
    /\ redmine = NoRedmine

NextNative == Read

SpecNative == InitNative /\ [][NextNative]_vars

\* SpecCache: reads, writes and a caller that keeps and changes what a read
\* gave it.
CacheProps == {<<[k |-> "K", v |-> "X1"]>>}

InitCache ==
    /\ files = [p \in Paths |->
                   IF p = SrcPath
                   THEN Archive(ContentTypes(TRUE, TRUE), NoPart,
                                Custom(TRUE, Numbered(<<[name |-> "K", vt |-> "lpwstr",
                                                         text |-> "old"]>>)))
                   ELSE Absent]
    /\ temps = <<>>
    /\ crossFs \in BOOLEAN
    /\ lib = NoAccessor
    /\ pc = "idle"
    /\ call = NoCall
    /\ lastWrite = NoWrite
    /\ lastRead = NoRead
    /\ nCalls = 0
    /\ handle = Handle(SrcPath)
    /\ held = NoHeld
    /\ cli = NoCli
    /\ redmine = NoRedmine

NextCache ==
    \/ \E properties \in CacheProps, output_path \in OutputPaths :
           Call(properties, output_path)
    \/ MkTemp
    \/ CopySource
    \/ MergeProps
    \/ MkTempZip
    \/ Rewrite
    \/ MoveTempZip
    \/ AppendCustomXml
    \/ UpdateContentTypes
    \/ FinalMove
    \/ Read
    \/ GetValues
    \/ MutateHeld("K", "mine")

SpecCache == InitCache /\ [][NextCache]_vars

\* SpecFrame: add_custom_properties on archives that hold two entries of one
\* name, and towards a destination that is a directory.
MediaName == "word/media/a.bin"

DuplicateEntries ==
    <<Entry(MediaName, Blob("first")), Entry(MediaName, Blob("second"))>>

WithEntries(archive, extra) == [archive EXCEPT !.entries = @ \o extra]

FramePropElems == {[name |-> "K", vt |-> "lpwstr", text |-> "old"]}

FrameArchives ==
    {WithEntries(Archive(ContentTypes(TRUE, TRUE), NoPart, cu), extra) :
        cu \in {NoPart} \cup {Custom(TRUE, Numbered(e)) :
                                 e \in SeqsUpTo(FramePropElems, MaxSrcProps) \ {<<>>}},
        extra \in {<<>>, DuplicateEntries}}

FramePaths == {SrcPath, OutPath, DirPath}

FrameProps == {<<[k |-> "K", v |-> "X1"]>>, <<[k |-> "A", v |-> "X1"]>>}

FrameOutputs == {"", OutPath, DirPath}

InitFrame ==
    /\ \E a \in FrameArchives :
           files = [p \in FramePaths |->
                       IF p = SrcPath THEN a ELSE IF p = DirPath THEN Dir ELSE Absent]
    /\ temps = <<>>
    /\ crossFs \in BOOLEAN
    /\ lib = NoAccessor
    /\ pc = "idle"
    /\ call = NoCall
    /\ lastWrite = NoWrite
    /\ lastRead = NoRead
    /\ nCalls = 0
    /\ handle = Handle(SrcPath)
    /\ held = NoHeld
    /\ cli = NoCli
    /\ redmine = NoRedmine

NextFrame ==
    \/ \E properties \in FrameProps, output_path \in FrameOutputs :
           Call(properties, output_path)
    \/ MkTemp
    \/ CopySource
    \/ MergeProps
    \/ MkTempZip
    \/ Rewrite
    \/ MoveTempZip
    \/ AppendCustomXml
    \/ UpdateContentTypes
    \/ FinalMove
    \/ Read

SpecFrame == InitFrame /\ [][NextFrame]_vars

\* SpecOpen: the paths a reader is made for, and the files at them.
OpenPaths == {SrcPath, UpperPath, TxtPath}

\* An archive that lacks the package's [Content_Types].xml.
ZipWithoutContentTypes ==
    [kind |-> "zip", entries |-> <<Entry(DocumentXml, Blob("document"))>>]

OpenContents ==
    {Absent, NotZip, EmptyFile, ZipWithoutContentTypes,
     Archive(ContentTypes(TRUE, TRUE), NoPart, NoPart)}

InitOpen ==
    /\ files \in [OpenPaths -> OpenContents]
    /\ temps = <<>>
    /\ crossFs = FALSE
    /\ lib = NoAccessor
    /\ pc = "idle"
    /\ call = NoCall
    /\ lastWrite = NoWrite
    /\ lastRead = NoRead
    /\ nCalls = 0
    /\ handle = NoHandle
    /\ held = NoHeld
    /\ cli = NoCli
    /\ redmine = NoRedmine

NextOpen ==
    \/ \E path \in OpenPaths : Open(path)
    \/ Read

SpecOpen == InitOpen /\ [][NextOpen]_vars

\* SpecCli: one run of a DOCX command on the files of a directory.  The
\* temp directory is on another filesystem than the document, which allows
\* every outcome of the final move.
CliPaths == {SrcPath, OutPath, TxtPath}

CliFilePaths == {SrcPath, OutPath, TxtPath}

PropsOf(names) ==
    Custom(TRUE, Numbered([i \in DOMAIN names |->
                              [name |-> names[i], vt |-> "lpwstr", text |-> "old"]]))

\* The documents: without variables, with all required ones, with two of
\* them (one a custom property, one a document variable), and a file that
\* is no archive.
CliDocuments ==
    {Archive(ContentTypes(TRUE, TRUE), NoPart, NoPart),
     Archive(ContentTypes(TRUE, TRUE), NoPart, PropsOf(required_vars)),
     Archive(ContentTypes(TRUE, TRUE), Settings(TRUE, <<DocVar("Status", "S")>>),
             PropsOf(<<"ID">>)),
     NotZip}

\* The lines a user types at a prompt: Enter alone, blanks, a padded value.
PromptLines == {<<>>, <<" ">>, <<" ", "B", "\t">>}

InitCli ==
    /\ \E d \in CliDocuments :
           files = [p \in CliPaths |->
                       IF p = SrcPath THEN d ELSE IF p = TxtPath THEN NotZip ELSE Absent]
    /\ temps = <<>>
    /\ crossFs = TRUE
    /\ lib = NoAccessor
    /\ pc = "idle"
    /\ call = NoCall
    /\ lastWrite = NoWrite
    /\ lastRead = NoRead
    /\ nCalls = 0
    /\ handle = NoHandle
    /\ held = NoHeld
    /\ cli = NoCli
    /\ redmine = NoRedmine

NextCli ==
    \/ \E file_path \in CliFilePaths, output_format \in {"table", "json"} :
           DocxCheck(file_path, output_format)
    \/ \E file_path \in CliFilePaths, variables_only \in BOOLEAN :
           DocxProps(file_path, variables_only)
    \/ \E file_path \in CliFilePaths, names_only \in BOOLEAN :
           DocxVars(file_path, names_only)
    \/ \E file_path \in CliFilePaths, output \in OutputPaths,
          interactive \in BOOLEAN, force \in BOOLEAN, review_all \in BOOLEAN :
           DocxAddVars(file_path, output, interactive, force, review_all)
    \/ \E value \in PromptLines : Prompt(value)
    \/ ShowChanges
    \/ \E answer \in BOOLEAN : Confirm(answer)
    \/ MkTemp
    \/ CopySource
    \/ MergeProps
    \/ MkTempZip
    \/ Rewrite
    \/ MoveTempZip
    \/ AppendCustomXml
    \/ UpdateContentTypes
    \/ FinalMove
    \/ \E verify \in BOOLEAN : AfterWrite(verify)

SpecCli == InitCli /\ [][NextCli]_vars

\* SpecRedmine: one get_all_project_issues call against a project of up to
\* MaxIssues issues.  The call is a running function: its steps are taken.
InitRedmine ==
    /\ files = [p \in Paths |-> Absent]
    /\ temps = <<>>
    /\ crossFs = FALSE
    /\ lib = NoAccessor
    /\ pc = "idle"
    /\ call = NoCall
    /\ lastWrite = NoWrite
    /\ lastRead = NoRead
    /\ nCalls = 0
    /\ handle = NoHandle
    /\ held = NoHeld
    /\ cli = NoCli
    /\ \E n \in 0..MaxIssues : redmine = Client(n)

NextRedmine ==
    \/ GetAllProjectIssues
    \/ FetchPage

SpecRedmine ==
    /\ InitRedmine
    /\ [][NextRedmine]_vars
    /\ WF_vars(GetAllProjectIssues)
    /\ WF_vars(FetchPage)

(***************************************************************************)
(* Properties.                                                             *)
(***************************************************************************)
AsMap(od) == [key \in Keys(od) |-> Get(od, key)]

OverlayMap(under, over) ==
    [key \in DOMAIN under \cup DOMAIN over |->
        IF key \in DOMAIN over THEN over[key] ELSE under[key]]

\* The property elements of the docProps/custom.xml of an archive, as bytes.
CustomElems(content) ==
    IF IsZip(content) /\ HasEntry(content, CustomXml)
    THEN ZipRead(content, CustomXml).props
    ELSE <<>>

ElemNames(elems) == {elems[i].name : i \in DOMAIN elems}

ElemPairs(elems) == {<<elems[i].name, elems[i].text>> : i \in DOMAIN elems}

CountEntries(content, name) ==
    Cardinality({i \in DOMAIN content.entries : content.entries[i].name = name})

Running == pc \notin {"idle", "killed"}

\* C1: after an add_custom_properties that returned, in place, a read of the
\* same path succeeds and returns every name of the mapping with the
\* mapping's value, as a string.
C1_RoundTrip ==
    (lastRead.status # "none" /\ lastWrite.status = "returned" /\ lastWrite.dest = SrcPath)
    => /\ lastRead.status = "ok"
       /\ \A i \in DOMAIN lastWrite.props :
              /\ lastWrite.props[i].k \in Keys(lastRead.props)
              /\ Get(lastRead.props, lastWrite.props[i].k) = PyStr(lastWrite.props[i].v)

\* C2: after an add_custom_properties that returned, the docProps/custom.xml
\* of the written archive is well-formed and holds exactly one property per
\* name of the source's property elements and of the mapping; a name of the
\* mapping has the mapping's value, every other name a value it had in the
\* source part.
C2_RegeneratedCustomXml ==
    lastWrite.status = "returned"
    => LET old == CustomElems(lastWrite.before[SrcPath])
           part == ZipRead(files[lastWrite.dest], CustomXml)
           new == part.props
       IN /\ part.ok
          /\ ElemNames(new) = ElemNames(old) \cup Keys(lastWrite.props)
          /\ \A i, j \in DOMAIN new : new[i].name = new[j].name => i = j
          /\ \A i \in DOMAIN new :
                 IF new[i].name \in Keys(lastWrite.props)
                 THEN new[i].text = Get(lastWrite.props, new[i].name)
                 ELSE <<new[i].name, new[i].text>> \in ElemPairs(old)

\* C3: when add_custom_properties({K: V}) returns, in place, right after the
\* same call returned in place, the file has one docProps/custom.xml entry,
\* that part is well-formed with exactly one property named K, of value V,
\* and it holds the properties it held after the first call.
C3_Idempotence ==
    (/\ lastWrite.status = "returned"
     /\ lastWrite.dest = SrcPath
     /\ Len(lastWrite.props) = 1
     /\ lastWrite.prev = <<lastWrite.props>>)
    => LET now == files[SrcPath]
           once == lastWrite.before[SrcPath]
           part == ZipRead(now, CustomXml)
       IN /\ CountEntries(now, CustomXml) = 1
          /\ part.ok
          /\ Cardinality({i \in DOMAIN part.props :
                              part.props[i].name = lastWrite.props[1].k}) = 1
          /\ <<lastWrite.props[1].k, lastWrite.props[1].v>> \in ElemPairs(part.props)
          /\ ZipRead(once, CustomXml).ok
          /\ ElemPairs(part.props) = ElemPairs(CustomElems(once))

\* C4: whenever add_custom_properties raises or is interrupted, and at every
\* step before that, the destination path holds what it held before the call
\* (or is still absent).
C4_AtomicReplace ==
    /\ Running => files = call.before
    /\ (lastWrite.status \in {"raised", "killed"} /\ lastWrite.props # <<>>)
       => files[lastWrite.dest] = lastWrite.before[lastWrite.dest]

\* C5: when add_custom_properties raises, every temporary file the call
\* created has been removed.
C5_TempCleanupOnFailure ==
    lastWrite.status = "raised"
    => \A slot \in lastWrite.created : temps[slot] = Absent

\* C6: add_custom_properties with an empty mapping raises ValueError, creates
\* no temporary file and changes no file; no step of the write path ever runs
\* with an empty mapping.
C6_EmptyMappingRejected ==
    /\ Running => call.props # <<>>
    /\ (lastWrite.status # "none" /\ lastWrite.props = <<>>)
       => /\ lastWrite.status = "raised"
          /\ lastWrite.exc = "ValueError"
          /\ lastWrite.created = {}
          /\ temps = lastWrite.tempsBefore
          /\ files = lastWrite.before

C6_Witness ==
    /\ lastWrite.exc = "ValueError"
    /\ lastWrite.prev # <<>>
    /\ \E slot \in DOMAIN temps : temps[slot] # Absent

\* C7: for a non-empty mapping, a failure in any step makes the call raise
\* an IOError: it returns no path, and no error of another type reaches the
\* caller; a call that returns had no failing step.
C7_WriteFailuresSurface ==
    (lastWrite.status # "none" /\ lastWrite.props # <<>>)
    => /\ lastWrite.kind # ""
          => /\ lastWrite.status = "raised"
             /\ lastWrite.exc \in IOErrorTypes
             /\ lastWrite.result = ""
       /\ lastWrite.status = "raised" => lastWrite.exc \in IOErrorTypes
       /\ lastWrite.status = "returned"
          => /\ lastWrite.kind = ""
             /\ lastWrite.result = lastWrite.dest

C7_Witness ==
    /\ lastWrite.status = "raised"
    /\ lastWrite.step = "rewrite"
    /\ lastWrite.kind = "BadZipFile"
    /\ lastWrite.exc = "IOError"

\* C8: the custom properties of a read have the keys of the native map L, of
\* the document-variable map S and of the raw custom.xml map C, each key with
\* the value of C if C has it, else of S if S has it, else of L.
C8_MergePrecedence ==
    lastRead.status = "ok"
    => LET L == ReadNative(lib).props
           S == AsPyStr(ReadDocumentVariables(files[SrcPath]))
           C == AsPyStr(ReadCustomPropertiesFromZip(files[SrcPath]))
           M == lastRead.props
       IN /\ DistinctKeys(M)
          /\ Keys(M) = Keys(L) \cup Keys(S) \cup Keys(C)
          /\ \A key \in Keys(M) :
                 Get(M, key) = IF key \in Keys(C) THEN Get(C, key)
                               ELSE IF key \in Keys(S) THEN Get(S, key)
                               ELSE Get(L, key)

C8_Witness ==
    /\ lastRead.status = "ok"
    /\ \E key \in Keys(lastRead.L) \cap Keys(lastRead.S) \cap Keys(lastRead.C) :
           /\ Get(lastRead.L, key) # Get(lastRead.S, key)
           /\ Get(lastRead.S, key) # Get(lastRead.C, key)
           /\ Get(lastRead.props, key) = Get(lastRead.C, key)
    /\ \E key \in Keys(lastRead.S) \ Keys(lastRead.C) :
           Get(lastRead.props, key) = Get(lastRead.S, key)

PartBad(content, name) ==
    ~HasEntry(content, name) \/ ~ZipRead(content, name).ok

\* C9: on an archive the library opens, a read whose native path does not
\* raise succeeds; a missing or malformed word/settings.xml (or
\* docProps/custom.xml) contributes nothing, and the result is the overlay of
\* the other sources.
C9_PartsAreOptional ==
    (lastRead.status # "none" /\ IsZip(files[SrcPath]) /\ ReadNative(lib).exc = "")
    => /\ lastRead.status = "ok"
       /\ PartBad(files[SrcPath], SettingsXml)
          => AsMap(lastRead.props) =
                 OverlayMap(AsMap(ReadNative(lib).props),
                            AsMap(AsPyStr(ReadCustomPropertiesFromZip(files[SrcPath]))))
       /\ PartBad(files[SrcPath], CustomXml)
          => AsMap(lastRead.props) =
                 OverlayMap(AsMap(ReadNative(lib).props),
                            AsMap(AsPyStr(ReadDocumentVariables(files[SrcPath]))))

C9_Witness ==
    /\ lastRead.status = "ok"
    /\ HasEntry(files[SrcPath], SettingsXml)
    /\ ~ZipRead(files[SrcPath], SettingsXml).ok
    /\ ZipRead(files[SrcPath], SettingsXml).vars # <<>>
    /\ lastRead.L # <<>>
    /\ lastRead.C # <<>>
    /\ Keys(lastRead.props) = Keys(lastRead.L) \cup Keys(lastRead.C)

\* C10: a read of an archive the library opens succeeds whatever happens in
\* the native path, and returns the entries of the document-variable path
\* and of the raw custom.xml path.
C10_NativePathBestEffort ==
    (lastRead.status # "none" /\ IsZip(files[SrcPath]))
    => /\ lastRead.status = "ok"
       /\ Keys(ReadDocumentVariables(files[SrcPath])) \subseteq Keys(lastRead.props)
       /\ Keys(ReadCustomPropertiesFromZip(files[SrcPath])) \subseteq Keys(lastRead.props)

ReadNames == Names \cup {"N"}

DocxNamed == {SrcPath, OutPath, UpperPath}

\* C12: DocxPropertiesReader(path) raises FileNotFoundError when nothing is
\* at the path, ValueError when something is there under another extension
\* than .docx, and otherwise gives a reader bound to the path, whatever the
\* file holds; it changes no file.
C12_OpenChecksPathOnly ==
    /\ [](handle.status # "none"
          => IF files[handle.file_path] = Absent
             THEN handle.status = "raised" /\ handle.exc = "FileNotFoundError"
             ELSE IF handle.file_path \notin DocxNamed
             THEN handle.status = "raised" /\ handle.exc = "ValueError"
             ELSE handle = Handle(handle.file_path))
    /\ [][handle' # handle => files' = files /\ temps' = temps]_vars

C12_Witness ==
    /\ handle = Handle(UpperPath)
    /\ files[UpperPath] = NotZip
    /\ files[TxtPath] = Absent

\* The file the last add_custom_properties call wrote: the file at the
\* destination, or the file put into the destination when that is a
\* directory.
WrittenFile ==
    LET dest == files[lastWrite.dest] IN
    IF dest.kind = "dir" THEN dest.children[Len(dest.children)] ELSE dest

\* The number of entries of an archive that have this name and these bytes.
CountOf(content, e) ==
    Cardinality({i \in DOMAIN content.entries : content.entries[i] = e})

EntrySet(content) == {content.entries[i] : i \in DOMAIN content.entries}

\* C13: after an add_custom_properties that returned, the written archive
\* holds every entry of the source archive other than docProps/custom.xml as
\* often as the source does, with the same name and bytes, no other entry,
\* and exactly one docProps/custom.xml.
C13_ArchiveFrame ==
    (lastWrite.status = "returned" /\ IsZip(lastWrite.before[SrcPath]))
    => LET src == lastWrite.before[SrcPath]
           out == WrittenFile
       IN /\ IsZip(out)
          /\ CountEntries(out, CustomXml) = 1
          /\ \A e \in EntrySet(src) \cup EntrySet(out) :
                 e.name # CustomXml => CountOf(out, e) = CountOf(src, e)

\* C14: an add_custom_properties that returned returns its destination; with
\* an output path other than the source, the archive with the new properties
\* is the file at that path and the source file is what it was; without one,
\* the archive with the new properties is the file at the source path.
C14_DestinationSelection ==
    lastWrite.status = "returned"
    => /\ lastWrite.result = lastWrite.dest
       /\ IsZip(files[lastWrite.dest])
       /\ HasEntry(files[lastWrite.dest], CustomXml)
       /\ Keys(lastWrite.props) \subseteq ElemNames(CustomElems(files[lastWrite.dest]))
       /\ lastWrite.dest # SrcPath => files[SrcPath] = lastWrite.before[SrcPath]

\* C15: after an add_custom_properties that returned, in place, every
\* property element of docProps/custom.xml is string-typed (lpwstr), and a
\* read that follows returns each property that the source part held with
\* another value type and that the mapping did not name, as a string.
C15_AllStringTyped ==
    (lastWrite.status = "returned" /\ lastWrite.dest = SrcPath)
    => LET old == CustomElems(lastWrite.before[SrcPath])
           new == CustomElems(files[SrcPath])
       IN /\ \A i \in DOMAIN new : new[i].vt = "lpwstr"
          /\ lastRead.status # "none"
             => \A i \in DOMAIN old :
                    (old[i].vt # "lpwstr" /\ old[i].name \notin Keys(lastWrite.props))
                    => /\ lastRead.status = "ok"
                       /\ old[i].name \in Keys(lastRead.props)
                       /\ Get(lastRead.props, old[i].name) = PyStr(old[i].text)

\* C16: in the docProps/custom.xml written by an add_custom_properties that
\* returned, there is one property per name of the merged set, and the pid
\* of the i-th property is i + 1: 2 for the first, one more for each
\* following one; so also when the call follows an earlier call.
C16_PidNumbering ==
    lastWrite.status = "returned"
    => LET props == CustomElems(WrittenFile)
           merged == Keys(ReadCustomPropertiesFromZip(lastWrite.before[SrcPath]))
                         \cup Keys(lastWrite.props)
       IN /\ Len(props) = Cardinality(merged)
          /\ \A i \in DOMAIN props : props[i].pid = i + 1
          /\ \A i, j \in DOMAIN props : props[i].pid = props[j].pid => i = j

C16_Witness ==
    /\ lastWrite.status = "returned"
    /\ lastWrite.prev # <<>>
    /\ Len(CustomElems(WrittenFile)) = 2
    /\ CustomElems(WrittenFile)[1].pid = 2
    /\ CustomElems(WrittenFile)[2].pid = 3

\* C17: when word/settings.xml is there and well-formed, every docVar
\* element of it gives the document-variable map of a read an entry under
\* its name, with the value of the last docVar of that name, whatever the
\* values are, the empty string included.
C17_DocVarsAllRead ==
    (/\ lastRead.status = "ok"
     /\ HasEntry(files[SrcPath], SettingsXml)
     /\ ZipRead(files[SrcPath], SettingsXml).ok)
    => LET elems == ZipRead(files[SrcPath], SettingsXml).vars IN
       \A i \in DOMAIN elems :
           /\ elems[i].name \in Keys(lastRead.S)
           /\ (\A j \in DOMAIN elems : elems[j].name = elems[i].name => j <= i)
              => Get(lastRead.S, elems[i].name) = PyStr(elems[i].val)

\* What the type of a listing entry asks of the value read for it.
Honored(e, v) ==
    IF e.type = "number"
    THEN IF Str(e.value) \in DottedTexts THEN v[1] = "float" ELSE v[1] = "int"
    ELSE IF e.type = "bool" THEN v[1] = "bool"
    ELSE IF e.type = "date" THEN v = e.value
    ELSE v = PyStr(Str(e.value))

\* C18: a read of a document whose native listing has entries succeeds, and
\* the native map holds, for each entry (the last one of its name), the
\* value its type asks for: a float for a number with a decimal point, an
\* integer for any other number, a boolean for a bool, the value itself for
\* a date, and the value as a string for any other type or none.
C18_NativeTypesHonored ==
    (lastRead.status # "none" /\ lib.accessor)
    => \A i \in DOMAIN lib.entries :
           /\ lastRead.status = "ok"
           /\ lib.entries[i].name \in Keys(lastRead.L)
           /\ (\A j \in DOMAIN lib.entries :
                   lib.entries[j].name = lib.entries[i].name => j <= i)
              => Honored(lib.entries[i], Get(lastRead.L, lib.entries[i].name))

\* The results a read of this content can have.
FreshReads(content) ==
    {ReadProperties(content, lib, openError) :
        openError \in IF DocumentOpens(content) THEN {""} ELSE OpenErrors(content)}

\* C19: a read returns what the file holds at the time of the call, also
\* after an in-place write and after the caller changed a mapping it was
\* given earlier; the mapping a caller holds is the one it was given until
\* the caller changes it, whatever is written later; and a change of that
\* mapping changes no file.
C19_NoCaching ==
    /\ [](lastRead.status # "none" => lastRead \in FreshReads(files[SrcPath]))
    /\ []((held.status = "ok" /\ ~held.mutated)
          => /\ held.value = held.fresh
             /\ [status |-> "ok", props |-> held.fresh, L |-> <<>>,
                  S |-> AsPyStr(ReadDocumentVariables(held.at)),
                  C |-> AsPyStr(ReadCustomPropertiesFromZip(held.at))]
                    \in FreshReads(held.at))
    /\ [][held' # held => files' = files /\ lastRead' = lastRead]_vars
    /\ [][files' # files => held' = held]_vars

C19_Witness ==
    /\ held.status = "ok"
    /\ held.mutated
    /\ held.at # files[SrcPath]
    /\ lastWrite.status = "returned"
    /\ lastWrite.dest = SrcPath
    /\ lastRead.status = "ok"
    /\ lastRead.props # held.value
    /\ lastRead.props # held.fresh
    /\ Get(lastRead.props, "K") = PyStr("X1")

\* C20: a read of a file the library cannot open (a file that is no ZIP
\* archive, or an archive without the parts of a package) raises
\* PackageNotFoundError, and no exception of another type.
C20_CorruptArchiveError ==
    (lastRead.status # "none" /\ ~DocumentOpens(files[handle.file_path]))
    => /\ lastRead.status = "raised"
       /\ lastRead.exc = "PackageNotFoundError"

\* C21: when add_custom_properties is at the final move, it has no file
\* handle open: the handles it opened on the source file, to copy it and
\* to read its custom properties, are closed, and so is the working copy.
C21_SourceClosedAtMove ==
    pc = "move"
    => /\ \A h \in call.open : h.file # "source"
       /\ call.open = {}
       /\ {SourceCopy, SourceZip} \subseteq call.opened

C21_Witness ==
    /\ pc = "move"
    /\ call.output_file = SrcPath
    /\ call.opened = {SourceCopy, SourceZip, WorkingArchive}
    /\ call.open = {}

\* C22: after an add_custom_properties that returned, on an archive whose
\* [Content_Types].xml is well-formed, the [Content_Types].xml of the
\* written archive is well-formed and has the Override for
\* /docProps/custom.xml; when the source had the Override, the part is the
\* source's.
C22_ContentTypesOverride ==
    (/\ lastWrite.status = "returned"
     /\ IsZip(lastWrite.before[SrcPath])
     /\ HasEntry(lastWrite.before[SrcPath], ContentTypesXml)
     /\ ZipRead(lastWrite.before[SrcPath], ContentTypesXml).ok)
    => LET was == ZipRead(lastWrite.before[SrcPath], ContentTypesXml)
           out == WrittenFile
       IN /\ HasEntry(out, ContentTypesXml)
          /\ ZipRead(out, ContentTypesXml).ok
          /\ ZipRead(out, ContentTypesXml).override
          /\ was.override => ZipRead(out, ContentTypesXml) = was

(***************************************************************************)
(* The command line.                                                       *)
(***************************************************************************)
Required == {required_vars[i] : i \in DOMAIN required_vars}

Range(s) == {s[i] : i \in DOMAIN s}

\* The names of the variables of the document the command was started on.
DocumentVariables ==
    Keys(ReadCustomProperties(cli.before[cli.file_path], lib).props)

\* The command was started on a document that can be read.
OnReadableDocument ==
    /\ cli.file_path = SrcPath
    /\ DocumentOpens(cli.before[SrcPath])

\* C23: in every run of docx-add-vars, add_custom_properties is called at
\* most once, and only after the user typed a non-blank value for at least
\* one prompted variable and answered yes to the confirmation; in every
\* other run no write is attempted and the files are unchanged.
C23_WriteOnlyAfterConfirmation ==
    cli.cmd = "docx-add-vars"
    => /\ nCalls <= 1
       /\ Len(cli.passed) = nCalls
       /\ nCalls = 1 => /\ cli.confirmed
                        /\ cli.answered # {}
                        /\ cli.answered \subseteq Range(cli.prompted)
       /\ nCalls = 0 => /\ files = cli.before
                        /\ temps = <<>>
                        /\ pc = "idle" /\ lastWrite = NoWrite

\* A run that wrote after a yes.
C23_Witness ==
    /\ cli.cmd = "docx-add-vars" /\ cli.stage = "exited"
    /\ nCalls = 1 /\ lastWrite.status = "returned"
    /\ files # cli.before

\* The value of a line without its surrounding blanks: the characters from
\* its first to its last character that is no blank.
Inner(line) ==
    LET solid == {i \in DOMAIN line : ~IsSpace(line[i])}
        first == CHOOSE i \in solid : \A j \in solid : i <= j
        last == CHOOSE i \in solid : \A j \in solid : j <= i
    IN IF solid = {} THEN "" ELSE Text(SubSeq(line, first, last))

\* C24: in interactive mode on a readable document, docx-add-vars prompts for
\* exactly the required variables absent from the document, or for all 8 with
\* --force or --review-all, each once; every prompt puts the variable into
\* the mapping with its value stripped of surrounding blanks when the line is
\* non-blank and leaves the mapping alone when it is blank; that mapping is
\* the one passed to add_custom_properties.
C24_PromptedSetAndMapping ==
    /\ []((/\ cli.cmd = "docx-add-vars" /\ cli.interactive /\ OnReadableDocument
           /\ cli.stage \in {"confirm", "writing", "exited"})
          => /\ Range(cli.prompted) =
                    IF cli.force \/ cli.review_all THEN Required
                    ELSE Required \ DocumentVariables
             /\ Len(cli.prompted) = Cardinality(Range(cli.prompted))
             /\ Keys(cli.new_properties) = cli.answered
             /\ cli.passed \in {<<>>, <<cli.new_properties>>}
             /\ cli.stage = "writing" => cli.passed = <<cli.new_properties>>)
    /\ [][cli.cmd = "docx-add-vars" /\ cli'.prompted # cli.prompted
          => LET var_name == cli'.prompted[Len(cli'.prompted)]
                 value == Inner(cli'.line)
             IN IF value # ""
                THEN cli'.new_properties = Put(cli.new_properties, var_name, value)
                ELSE cli'.new_properties = cli.new_properties]_vars
    /\ [][cli'.new_properties # cli.new_properties
          => cli'.prompted # cli.prompted \/ cli.stage = "shell"]_vars

\* --force on a document that has every required variable: all 8 prompted,
\* one kept by pressing Enter, the mapping passed without it.
C24_Witness ==
    /\ cli.cmd = "docx-add-vars" /\ cli.force /\ ~cli.review_all
    /\ Required \subseteq DocumentVariables
    /\ Len(cli.prompted) = 8
    /\ cli.stage = "writing"
    /\ "ID" \notin Keys(cli.passed[1])
    /\ "Status" \in Keys(cli.passed[1]) /\ Get(cli.passed[1], "Status") = "B"

\* C25: on a readable document docx-check reports found = the number of the
\* 8 required variables the document has, total = 8, every variable's exists
\* flag equal to its presence, all_found exactly when found = 8, and exits
\* with code 0 whether or not variables are missing.
C25_CheckReport ==
    (cli.cmd = "docx-check" /\ cli.stage = "exited" /\ OnReadableDocument)
    => /\ cli.exit = 0
       /\ cli.report.found = Cardinality(Required \cap DocumentVariables)
       /\ cli.report.total = 8
       /\ Len(cli.report.variables) = 8
       /\ \A i \in DOMAIN cli.report.variables :
              /\ cli.report.variables[i].name = required_vars[i]
              /\ cli.report.variables[i].exists <=> required_vars[i] \in DocumentVariables
       /\ cli.report.all_found <=> cli.report.found = 8

\* A check of a document that has two of the eight.
C25_Witness ==
    /\ cli.cmd = "docx-check" /\ cli.stage = "exited" /\ OnReadableDocument
    /\ cli.report.found = 2 /\ ~cli.report.all_found /\ cli.exit = 0
    /\ DocumentVariables = {"ID", "Status"}

\* What the store signals for the command's file as it was found.
StoreRefuses ==
    \/ ~Exists(cli.before, cli.file_path)
    \/ Lower(Suffix(cli.file_path)) # ".docx"
    \/ ~DocumentOpens(cli.before[cli.file_path])

\* C26: every DOCX command exits with code 0 exactly when no error was
\* signaled, with a non-zero code when the store signals an error (missing
\* file, wrong extension, unreadable archive, a failed write) and with a
\* non-zero code whenever docx-add-vars is run with --batch.
C26_ExitCodes ==
    (cli.stage = "exited" /\ cli.cmd \in {"docx-check", "docx-add-vars", "docx-props", "docx-vars"})
    => /\ cli.exit = 0 <=> cli.errors = {}
       /\ StoreRefuses => cli.exit # 0
       /\ (cli.cmd = "docx-add-vars" /\ lastWrite.status = "raised") => cli.exit # 0
       /\ (cli.cmd = "docx-add-vars" /\ ~cli.interactive) => cli.exit # 0

\* The same, with --batch exiting non-zero when the command comes to the
\* point where it would prompt: with --review-all, with --force, or when a
\* required variable is absent.
C26_ExitCodesWhenSignaled ==
    (cli.stage = "exited" /\ cli.cmd \in {"docx-check", "docx-add-vars", "docx-props", "docx-vars"})
    => /\ cli.exit = 0 <=> cli.errors = {}
       /\ StoreRefuses => cli.exit # 0
       /\ (cli.cmd = "docx-add-vars" /\ lastWrite.status = "raised") => cli.exit # 0
       /\ (/\ cli.cmd = "docx-add-vars" /\ ~cli.interactive
           /\ (~OnReadableDocument \/ cli.review_all \/ cli.force
               \/ ~(Required \subseteq DocumentVariables)))
          => cli.exit # 0
       /\ (/\ cli.cmd = "docx-add-vars" /\ ~cli.interactive /\ OnReadableDocument
           /\ ~cli.review_all /\ ~cli.force /\ Required \subseteq DocumentVariables)
          => cli.exit = 0

\* A write that failed under docx-add-vars, and the exit code 1.
C26_Witness ==
    /\ cli.stage = "exited" /\ cli.cmd = "docx-add-vars"
    /\ lastWrite.status = "raised" /\ cli.errors = {"IOError"} /\ cli.exit = 1

(***************************************************************************)
(* Sequences of writes.                                                    *)
(***************************************************************************)
\* The raw custom properties of a file: what _read_custom_properties_from_zip
\* finds in its docProps/custom.xml.
Raw(content) == AsMap(ReadCustomPropertiesFromZip(content))

\* The last call was made in place (an empty mapping is refused before the
\* destination is chosen).
InPlace == lastWrite.dest = SrcPath \/ lastWrite.props = <<>>

\* C27: every in-place call that ends leaves the raw custom properties of
\* the file as they were before it overlaid with its mapping when it
\* returned, and as they were when it raised; no name disappears.  Over a
\* sequence of calls this is the overlay of the successful calls' mappings,
\* in call order, on the initial properties.
C27_OverlayOfSuccessfulCalls ==
    (lastWrite.status \in {"returned", "raised"} /\ InPlace /\ pc = "idle")
    => LET was == Raw(lastWrite.before[SrcPath])
           now == Raw(files[SrcPath])
       IN /\ DOMAIN was \subseteq DOMAIN now
          /\ now = IF lastWrite.status = "returned"
                   THEN OverlayMap(was, AsMap(lastWrite.props))
                   ELSE was

\* The merged view of a document: custom_properties of read_properties.
Merged(content) == AsMap(ReadCustomProperties(content, lib).props)

\* C28: an add_custom_properties(newProps) that returned in place on a
\* readable document leaves the document readable, and the merged view M'
\* after it has the names of the merged view M before it and of newProps,
\* newProps' values (as strings) for the names of newProps, also for one
\* that was a document variable, and M's values for every other name.
C28_MergedViewKeepsNames ==
    (/\ lastWrite.status = "returned" /\ lastWrite.dest = SrcPath /\ pc = "idle"
     /\ DocumentOpens(lastWrite.before[SrcPath]))
    => /\ DocumentOpens(files[SrcPath])
       /\ LET M == Merged(lastWrite.before[SrcPath])
              after == Merged(files[SrcPath])
              newProps == AsMap(AsPyStr(lastWrite.props))
          IN /\ DOMAIN after = DOMAIN M \cup DOMAIN newProps
             /\ \A k \in DOMAIN after :
                    after[k] = IF k \in DOMAIN newProps THEN newProps[k] ELSE M[k]

\* The temporary files on disk.
Leftover == {slot \in DOMAIN temps : temps[slot] # Absent}

\* C29: when add_custom_properties has returned, no temporary file the call
\* created is on disk, and the temp directory holds no more files than
\* before the call.
C29_NoTempLeftAfterSuccess ==
    (lastWrite.status = "returned" /\ pc = "idle")
    => /\ \A slot \in lastWrite.created : temps[slot] = Absent
       /\ Cardinality(Leftover)
              <= Cardinality({slot \in DOMAIN lastWrite.tempsBefore :
                                 lastWrite.tempsBefore[slot] # Absent})

(***************************************************************************)
(* Redmine pagination.                                                     *)
(***************************************************************************)
\* C30: get_all_project_issues asks for the offsets 0, 100, 200, ... in
\* order; every turn of its loop that meets an empty page, a collected count
\* that has reached total_count or a failed request is the last one; the
\* call returns, and when no request failed it returns all N issues of the
\* server, each once, in the server's order.
C30_Pagination ==
    /\ [](redmine.stage \in {"loop", "returned"}
          => /\ \A i \in DOMAIN redmine.requested : redmine.requested[i] = 100 * (i - 1)
             /\ \A i \in DOMAIN redmine.all_issues :
                    redmine.all_issues[i] = redmine.server[i]
             /\ Len(redmine.all_issues) <= Len(redmine.server))
    /\ []((redmine.stage = "returned" /\ ~redmine.failed)
          => /\ redmine.result = redmine.server
             /\ \A i, j \in DOMAIN redmine.result :
                    redmine.result[i] = redmine.result[j] => i = j
             /\ Len(redmine.requested) =
                    IF Len(redmine.server) = 0 THEN 1
                    ELSE (Len(redmine.server) + 99) \div 100)
    /\ [][(redmine.stage = "loop" /\ redmine'.requested # redmine.requested)
          => LET page == Response(redmine.server, 100, redmine.offset).issues IN
             (\/ page = <<>>
              \/ Len(redmine.all_issues) + Len(page) >= Len(redmine.server)
              \/ redmine'.failed)
             <=> redmine'.stage = "returned"]_vars
    /\ (redmine.stage = "ready" ~> redmine.stage = "returned")

\* A project of 250 issues, fetched in three pages without a failure.
C30_Witness ==
    /\ redmine.stage = "returned" /\ ~redmine.failed
    /\ Len(redmine.server) = 250
    /\ redmine.requested = <<0, 100, 200>>
    /\ Len(redmine.result) = 250

====
